---- MODULE Spec2Model ----
(***************************************************************************)
(* A model of four parts of the runtime:                                   *)
(*   - the proxy layer (reactive.ts): reactive / shallowReactive /         *)
(*     readonly / shallowReadonly, createReactiveObject, toRaw, markRaw;   *)
(*   - the async component wrapper (apiAsyncComponent.ts);                 *)
(*   - the KeepAlive component (components/KeepAlive.ts);                  *)
(*   - effects and effect scopes as the script myTest/index.js uses them;  *)
(*   - activate / deactivate of kept-alive components and the hooks        *)
(*     registered with onActivated / onDeactivated (KeepAlive.ts).         *)
(* Each part has its own specification over the module's variables:        *)
(* SpecReactive, SpecAsync, SpecKeepAlive, SpecEffect and SpecHooks.       *)
(***************************************************************************)
EXTENDS Integers, Sequences, FiniteSets, TLC

VARIABLES
    \* ---- proxy layer ----
    reactiveMap,          \* WeakMap raw target -> reactive proxy
    shallowReactiveMap,   \* WeakMap raw target -> shallowReactive proxy
    readonlyMap,          \* WeakMap target -> readonly proxy
    shallowReadonlyMap,   \* WeakMap target -> shallowReadonly proxy
    proxies,              \* every Proxy object constructed so far
    skipped,              \* raw objects carrying __v_skip
    nonExtensible,        \* raw objects for which Object.isExtensible is false
    rawType,              \* the class of the raw object o1, fixed at construction
    call,                 \* the last call of the proxy layer's API
    ret,                  \* what that call returned
    warned,               \* whether that call printed the __DEV__ warning
    made,                 \* the Proxy that call constructed (Undefined when none)
    firstWrap,            \* history: <<target, kind>> -> the first proxy built for it
    \* ---- async component wrapper ----
    options,              \* the options record given to defineAsyncComponent
    pendingRequest,       \* the promise of the current attempt (0 is null)
    resolvedComp,         \* whether resolvedComp is set
    retries,              \* the retries counter
    attempts,             \* one record per loader() invocation, in order
    inst,                 \* the wrapper instances: setup state, refs, timers
    \* ---- KeepAlive ----
    props,                \* the include / exclude / max props of the last render
    keys,                 \* the Set keys, in insertion order (oldest first)
    cache,                \* the Map cache: key -> cached vnode
    current,              \* the vnode of the active child, or NullVNode
    pendingCacheKey,      \* the key cacheSubtree will store, or NullKey
    phase,                \* "setup", "rendered" (post-flush jobs pending), "idle"
                          \* or "unmounted"
    watchPending,         \* whether the include/exclude watcher is queued
    recency,              \* history: the keys in keys by their latest render, oldest first
    lastRender,           \* history: what the last render did
    lastPrune,            \* history: what the evictions of the last render or prune,
                          \* or the unmount of the instance, did to the subtrees
    \* ---- activation of kept-alive components and their hooks ----
    place,                \* per kept-alive component: "unmounted", "active" (in the
                          \* tree) or "stored" (in the storage container)
    isDeactivated,        \* instance.isDeactivated, per instance
    postQueue,            \* the post-flush callbacks queued by activate / deactivate
    wdc,                  \* hook.__wdc: the target its wrapper closes over, or NoInstance
    injected,             \* the a and da arrays of the kept-alive components
    lastCall,             \* history: the last of activate / deactivate called per component
    lastRun,              \* history: what the last post-flush callback did
    \* ---- effects and effect scopes ----
    person,               \* the raw object behind the reactive proxy person
    scope,                \* the effect scope: "none", "active" or "stopped"
    effects,              \* per effect: state, dependencies, number of runs
    writes                \* history: number of writes, and of those after scope.stop()

reactiveVars == <<reactiveMap, shallowReactiveMap, readonlyMap, shallowReadonlyMap,
                  proxies, skipped, nonExtensible, rawType, call, ret, warned,
                  made, firstWrap>>

asyncVars == <<options, pendingRequest, resolvedComp, retries, attempts, inst>>

keepAliveVars == <<props, keys, cache, current, pendingCacheKey, phase, watchPending,
                   recency, lastRender, lastPrune>>

effectVars == <<person, scope, effects, writes>>

hookVars == <<place, isDeactivated, postQueue, wdc, injected, lastCall, lastRun>>

vars == <<reactiveVars, asyncVars, keepAliveVars, effectVars, hookVars>>

----------------------------------------------------------------------------
(***************************************************************************)
(* PROXY LAYER                                                             *)
(*                                                                         *)
(* A value is a record [raw, path].  raw names the underlying JavaScript   *)
(* value; path is the chain of Proxy objects built on top of it, innermost *)
(* first, each element <<kind, n>> where n numbers the Proxy objects built *)
(* for the same direct target with the same kind (object identity: two     *)
(* Proxy objects over the same target are different objects).              *)
(***************************************************************************)

\* Bound on the number of Proxy objects constructed in one run.
MaxProxies == 3

\* o1 is an object of an allowed class, d1 a Date, n7 a number.
RawNames == {"o1", "d1", "n7", "null"}

\* The classes createReactiveObject builds proxies for.
AllowedTypes == {"Object", "Array", "Map", "Set", "WeakMap", "WeakSet"}

\* toRawType(value): the [object X] tag of the raw value.
toRawType(name) ==
    CASE name = "o1"   -> rawType
      [] name = "d1"   -> "Date"
      [] name = "n7"   -> "Number"
      [] name = "null" -> "Null"

Kinds == {"reactive", "shallowReactive", "readonly", "shallowReadonly"}

IsReadonlyKind(k) == k \in {"readonly", "shallowReadonly"}
IsShallowKind(k) == k \in {"shallowReactive", "shallowReadonly"}

RawValue(name) == [raw |-> name, path |-> <<>>]
Undefined == [raw |-> "undefined", path |-> <<>>]

RawValues == {RawValue(n) : n \in RawNames}
RawObjects == {RawValue(n) : n \in {"o1", "d1"}}

\* The objects user code marks raw or freezes in a run (a Date is never
\* wrapped, marked or not).
MarkedObjects == {RawValue("o1")}

IsProxyValue(v) == Len(v.path) > 0
KindOf(v) == v.path[Len(v.path)][1]
DirectTarget(v) == [raw |-> v.raw, path |-> SubSeq(v.path, 1, Len(v.path) - 1)]

\* JavaScript truthiness of a value of the model.
Truthy(v) == v.raw \notin {"undefined", "null"}

\* isObject(val): val !== null && typeof val === 'object'
isObject(v) == v.raw \in {"o1", "d1"}

\* The ReactiveFlags as a proxy's get trap answers them; a raw value has none
\* of them, and every key the trap does not know is read from the target.
FlagRaw(v) == IF IsProxyValue(v) THEN DirectTarget(v) ELSE Undefined
FlagIsReactive(v) == IsProxyValue(v) /\ ~IsReadonlyKind(KindOf(v))
FlagIsReadonly(v) == IsProxyValue(v) /\ IsReadonlyKind(KindOf(v))
FlagIsShallow(v) == IsProxyValue(v) /\ IsShallowKind(KindOf(v))
FlagSkip(v) == v.raw \in skipped
IsExtensible(v) == v.raw \notin nonExtensible

targetTypeMap(type) ==
    CASE type \in {"Object", "Array"} -> "COMMON"
      [] type \in {"Map", "Set", "WeakMap", "WeakSet"} -> "COLLECTION"
      [] OTHER -> "INVALID"

\* getTargetType without the __v_skip test.
getTargetType_IgnoresSkip(value) ==
    IF ~IsExtensible(value)
    THEN "INVALID"
    ELSE targetTypeMap(toRawType(value.raw))

\* getTargetType without the Object.isExtensible test.
getTargetType_IgnoresExtensible(value) ==
    IF FlagSkip(value)
    THEN "INVALID"
    ELSE targetTypeMap(toRawType(value.raw))

getTargetType(value) ==
    IF FlagSkip(value) \/ ~IsExtensible(value)
    THEN "INVALID"
    ELSE targetTypeMap(toRawType(value.raw))

isReadonly(value) == Truthy(value) /\ FlagIsReadonly(value)

isShallow(value) == Truthy(value) /\ FlagIsShallow(value)

RECURSIVE isReactive(_)
isReactive(value) ==
    IF isReadonly(value)
    THEN isReactive(FlagRaw(value))
    ELSE Truthy(value) /\ FlagIsReactive(value)

isProxy(value) == isReactive(value) \/ isReadonly(value)

\* toRaw that unwraps one level only.
toRaw_OneLevel(observed) ==
    LET raw == IF Truthy(observed) THEN FlagRaw(observed) ELSE observed
    IN  IF Truthy(observed) /\ Truthy(raw) THEN raw ELSE observed

RECURSIVE toRaw(_)
toRaw(observed) ==
    LET raw == IF Truthy(observed) THEN FlagRaw(observed) ELSE observed
    IN  IF Truthy(observed) /\ Truthy(raw) THEN toRaw(raw) ELSE observed

\* The identity map of a kind.
ProxyMapOf(k) ==
    CASE k = "reactive"        -> reactiveMap
      [] k = "shallowReactive" -> shallowReactiveMap
      [] k = "readonly"        -> readonlyMap
      [] k = "shallowReadonly" -> shallowReadonlyMap

\* proxyMap.get(target)
MapGet(map, target) == IF target \in DOMAIN map THEN map[target] ELSE Undefined

\* proxyMap.set that stores nothing.
MapSet_Dropped(map, target, proxy) == map

\* proxyMap.set that forgets every other entry of the map.
MapSet_Replaces(map, target, proxy) == [t \in {target} |-> proxy]

\* proxyMap.set(target, proxy)
MapSet(map, target, proxy) ==
    [t \in (DOMAIN map) \cup {target} |-> IF t = target THEN proxy ELSE map[t]]

\* new Proxy(target, handlers): a fresh object, distinct from every Proxy
\* constructed before.
NewProxy(target, k) ==
    LET n == Cardinality({p \in proxies : DirectTarget(p) = target /\ KindOf(p) = k})
    IN  [raw |-> target.raw, path |-> Append(target.path, <<k, n>>)]

\* The guard taking every readonly request for the legal re-wrap.
AlreadyProxy_AnyReadonly(target, isReadonlyArg) ==
    Truthy(FlagRaw(target)) /\ ~isReadonlyArg

\* The guard of lines 206-211: target is already a proxy, and the call is
\* not readonly() of a reactive proxy.
AlreadyProxy(target, isReadonlyArg) ==
    Truthy(FlagRaw(target)) /\ ~(isReadonlyArg /\ FlagIsReactive(target))

\* createReactiveObject that never consults proxyMap.
createReactiveObject_NoLookup(target, isReadonlyArg, k) ==
    IF ~isObject(target)
    THEN [ret |-> target, made |-> Undefined, warned |-> TRUE]
    ELSE IF AlreadyProxy(target, isReadonlyArg)
    THEN [ret |-> target, made |-> Undefined, warned |-> FALSE]
    ELSE IF getTargetType(target) = "INVALID"
    THEN [ret |-> target, made |-> Undefined, warned |-> FALSE]
    ELSE [ret |-> NewProxy(target, k), made |-> NewProxy(target, k), warned |-> FALSE]

\* createReactiveObject: the result is the returned value, the proxy it
\* constructed and registered (Undefined when none) and whether it warned.
createReactiveObject(target, isReadonlyArg, k) ==
    IF ~isObject(target)
    THEN [ret |-> target, made |-> Undefined, warned |-> TRUE]
    ELSE IF AlreadyProxy(target, isReadonlyArg)
    THEN [ret |-> target, made |-> Undefined, warned |-> FALSE]
    ELSE IF Truthy(MapGet(ProxyMapOf(k), target))
    THEN [ret |-> MapGet(ProxyMapOf(k), target), made |-> Undefined, warned |-> FALSE]
    ELSE IF getTargetType(target) = "INVALID"
    THEN [ret |-> target, made |-> Undefined, warned |-> FALSE]
    ELSE [ret |-> NewProxy(target, k), made |-> NewProxy(target, k), warned |-> FALSE]

reactive(target) ==
    IF isReadonly(target)
    THEN [ret |-> target, made |-> Undefined, warned |-> FALSE]
    ELSE createReactiveObject(target, FALSE, "reactive")

shallowReactive(target) == createReactiveObject(target, FALSE, "shallowReactive")

readonly(target) == createReactiveObject(target, TRUE, "readonly")

shallowReadonly(target) == createReactiveObject(target, TRUE, "shallowReadonly")

\* The four wrap entry points, by kind.
WrapResult(target, k) ==
    CASE k = "reactive"        -> reactive(target)
      [] k = "shallowReactive" -> shallowReactive(target)
      [] k = "readonly"        -> readonly(target)
      [] k = "shallowReadonly" -> shallowReadonly(target)

\* Every value a caller can hold: the raw values and the proxies built so far.
Values == RawValues \cup proxies

InitReactive ==
    /\ reactiveMap = <<>>
    /\ shallowReactiveMap = <<>>
    /\ readonlyMap = <<>>
    /\ shallowReadonlyMap = <<>>
    /\ proxies = {}
    /\ skipped = {}
    /\ nonExtensible = {}
    /\ rawType \in {"Object", "Map"}
    /\ call = [op |-> "none", arg |-> Undefined, kind |-> "none"]
    /\ ret = Undefined
    /\ warned = FALSE
    /\ made = Undefined
    /\ firstWrap = <<>>

\* One call of reactive / shallowReactive / readonly / shallowReadonly.
Wrap(target, k) ==
    LET r == WrapResult(target, k)
        built == Truthy(r.made)
    IN  /\ built => Cardinality(proxies) < MaxProxies
        /\ proxies' = IF built THEN proxies \cup {r.made} ELSE proxies
        /\ reactiveMap' =
             IF built /\ k = "reactive"
             THEN MapSet(reactiveMap, target, r.made) ELSE reactiveMap
        /\ shallowReactiveMap' =
             IF built /\ k = "shallowReactive"
             THEN MapSet(shallowReactiveMap, target, r.made) ELSE shallowReactiveMap
        /\ readonlyMap' =
             IF built /\ k = "readonly"
             THEN MapSet(readonlyMap, target, r.made) ELSE readonlyMap
        /\ shallowReadonlyMap' =
             IF built /\ k = "shallowReadonly"
             THEN MapSet(shallowReadonlyMap, target, r.made) ELSE shallowReadonlyMap
        /\ call' = [op |-> "wrap", arg |-> target, kind |-> k]
        /\ ret' = r.ret
        /\ warned' = r.warned
        /\ made' = r.made
        /\ firstWrap' =
             [x \in (DOMAIN firstWrap) \cup (IF built THEN {<<target, k>>} ELSE {}) |->
                 IF x \in DOMAIN firstWrap THEN firstWrap[x] ELSE r.made]
        /\ UNCHANGED <<skipped, nonExtensible, rawType>>
        /\ UNCHANGED <<asyncVars, keepAliveVars, effectVars, hookVars>>

\* markRaw(value): def(value, '__v_skip', true); return value.  Defining the
\* property needs an extensible object unless it is there already.
MarkRaw(value) ==
    /\ value \in MarkedObjects
    /\ IsExtensible(value) \/ FlagSkip(value)
    /\ skipped' = skipped \cup {value.raw}
    /\ call' = [op |-> "markRaw", arg |-> value, kind |-> "none"]
    /\ ret' = value
    /\ warned' = FALSE
    /\ made' = Undefined
    /\ UNCHANGED <<reactiveMap, shallowReactiveMap, readonlyMap, shallowReadonlyMap,
                   proxies, nonExtensible, rawType, firstWrap>>
    /\ UNCHANGED <<asyncVars, keepAliveVars, effectVars, hookVars>>

\* User code makes a raw object non-extensible (Object.freeze, Object.seal,
\* Object.preventExtensions); getTargetType reads this at each later call.
PreventExtensions(value) ==
    /\ value \in MarkedObjects
    /\ IsExtensible(value)
    /\ nonExtensible' = nonExtensible \cup {value.raw}
    /\ call' = [op |-> "preventExtensions", arg |-> value, kind |-> "none"]
    /\ ret' = value
    /\ warned' = FALSE
    /\ made' = Undefined
    /\ UNCHANGED <<reactiveMap, shallowReactiveMap, readonlyMap, shallowReadonlyMap,
                   proxies, skipped, rawType, firstWrap>>
    /\ UNCHANGED <<asyncVars, keepAliveVars, effectVars, hookVars>>

\* The queries of the proxy layer.
QueryNames == {"isReactive", "isReadonly", "isShallow", "isProxy", "toRaw"}

\* A boolean result as a value of the model.
Boolean(b) == RawValue(IF b THEN "true" ELSE "false")

QueryResult(q, value) ==
    CASE q = "isReactive" -> Boolean(isReactive(value))
      [] q = "isReadonly" -> Boolean(isReadonly(value))
      [] q = "isShallow"  -> Boolean(isShallow(value))
      [] q = "isProxy"    -> Boolean(isProxy(value))
      [] q = "toRaw"      -> toRaw(value)

\* One call of isReactive / isReadonly / isShallow / isProxy / toRaw (lines
\* 238-269): each reads flags of its argument and writes nothing.
Query(q, value) ==
    /\ call' = [op |-> q, arg |-> value, kind |-> "none"]
    /\ ret' = QueryResult(q, value)
    /\ warned' = FALSE
    /\ made' = Undefined
    /\ UNCHANGED <<reactiveMap, shallowReactiveMap, readonlyMap, shallowReadonlyMap,
                   proxies, skipped, nonExtensible, rawType, firstWrap>>
    /\ UNCHANGED <<asyncVars, keepAliveVars, effectVars, hookVars>>

NextReactive ==
    \/ \E target \in Values, k \in Kinds : Wrap(target, k)
    \/ \E value \in MarkedObjects : MarkRaw(value)
    \/ \E value \in MarkedObjects : PreventExtensions(value)
    \/ \E q \in QueryNames, value \in Values : Query(q, value)

----------------------------------------------------------------------------
(***************************************************************************)
(* ASYNC COMPONENT WRAPPER                                                 *)
(*                                                                         *)
(* One defineAsyncComponent closure and the instances of the component it  *)
(* returns.  A promise is named by the number of the loader() invocation   *)
(* that load() built it on: pendingRequest = loader().catch(..).then(..).  *)
(* Promise reactions run as microtasks, before any timer or other task, so *)
(* a settlement and the then/catch callbacks waiting on it are one step.   *)
(***************************************************************************)

\* Bounds: wrapper instances mounted in one run, loader() invocations.
NInst == 2
MaxAttempts == 2

Instances == 1..NInst

\* An instance before its setup() has run.  view is what its last render
\* returned; everLoading, everError, loadedDelayed and timeoutErrors are
\* history: whether a render returned the loading / the error component,
\* whether loaded was set while delayed was still true, and how many
\* timeout errors were made.
Unmounted ==
    [state |-> "unmounted", loaded |-> FALSE, error |-> "none", delayed |-> FALSE,
     promise |-> 0, timeoutTimer |-> FALSE,
     view |-> "none", everLoading |-> FALSE, everError |-> FALSE,
     loadedDelayed |-> FALSE, timeoutErrors |-> 0]

\* The attempt at the end of the chain a promise follows: a user retry
\* resolves the failed attempt's promise with the promise of the next one.
RECURSIVE Follow(_)
Follow(a) == IF attempts[a].status = "follows" THEN Follow(attempts[a].next) ELSE a

\* The instances whose load().then/.catch waits on attempt a.
Waiting(a) ==
    {i \in Instances : inst[i].state = "waiting" /\ inst[i].promise # 0
                        /\ Follow(inst[i].promise) = a}

\* load() that calls loader() on every call.
load_NoDedup(pending) == [ret |-> Len(attempts) + 1, invoked |-> TRUE]

\* load(): pendingRequest, or a new loader() invocation when it is null.
load(pending) ==
    IF pending # 0
    THEN [ret |-> pending, invoked |-> FALSE]
    ELSE [ret |-> Len(attempts) + 1, invoked |-> TRUE]

\* The record of a loader() invocation just made.
NewAttempt == [status |-> "pending", next |-> 0, handlerArg |-> 0]

\* The render function that tests the loading component before the error.
render_LoadingFirst(r, resolved) ==
    IF r.loaded /\ resolved THEN "comp"
    ELSE IF options.loadingComponent /\ ~r.delayed THEN "loading"
    ELSE IF r.error # "none" /\ options.errorComponent THEN "error"
    ELSE "none"

\* The render function that tests the error before the loaded flag.
render_ErrorFirst(r, resolved) ==
    IF r.error # "none" /\ options.errorComponent THEN "error"
    ELSE IF r.loaded /\ resolved THEN "comp"
    ELSE IF options.loadingComponent /\ ~r.delayed THEN "loading"
    ELSE "none"

\* The render function that shows the loading component during the delay.
render_IgnoresDelay(r, resolved) ==
    IF r.loaded /\ resolved THEN "comp"
    ELSE IF r.error # "none" /\ options.errorComponent THEN "error"
    ELSE IF options.loadingComponent THEN "loading"
    ELSE "none"

\* The render function of a wrapper instance (lines 198-214) on the refs r
\* of the instance and the value of resolvedComp.
render(r, resolved) ==
    IF r.loaded /\ resolved THEN "comp"
    ELSE IF r.error # "none" /\ options.errorComponent THEN "error"
    ELSE IF options.loadingComponent /\ ~r.delayed THEN "loading"
    ELSE "none"

\* A run of the render function of an instance whose refs are r: the scheduler
\* flushes the update job in the microtasks of the task that changed a ref,
\* before any timer or settlement of another task.
Rerender(r, resolved) ==
    LET v == render(r, resolved)
    IN  [r EXCEPT !.view = v,
                  !.everLoading = @ \/ v = "loading",
                  !.everError = @ \/ v = "error"]

\* The timeout callback that makes its error whatever the refs say.
TimedOut_Always(r) == TRUE

\* Line 165: the load has neither resolved nor errored.
TimedOut(r) == ~r.loaded /\ r.error = "none"

\* The attempts argument counted from zero.
HandlerAttempts_ZeroBased(r) == r

\* Line 96: the attempts argument given to the user's onError, retries + 1.
HandlerAttempts(r) == r + 1

InitAsync ==
    /\ options \in [onError : BOOLEAN, timeout : BOOLEAN, delay : BOOLEAN,
                    errorComponent : BOOLEAN, loadingComponent : BOOLEAN]
    /\ pendingRequest = 0
    /\ resolvedComp = FALSE
    /\ retries = 0
    /\ attempts = <<>>
    /\ inst = [i \in Instances |-> Unmounted]

\* A setup that starts the timers although the component is resolved.
SetupResolved_StartsTimers(r) ==
    [r EXCEPT !.state = "resolved", !.view = "comp",
              !.delayed = options.delay, !.timeoutTimer = options.timeout]

\* setup() when resolvedComp is set (lines 129-131): it returns the render
\* function of the resolved component before load() and before any timer.
SetupResolved(r) == [r EXCEPT !.state = "resolved", !.view = "comp"]

\* setup() of instance i (lines 122-215) and its first render; the instances
\* are numbered in the order they are set up.
Setup(i) ==
    /\ inst[i].state = "unmounted"
    /\ \A j \in Instances : j < i => inst[j].state # "unmounted"
    /\ IF resolvedComp
       THEN /\ inst' = [inst EXCEPT ![i] = SetupResolved(@)]
            /\ UNCHANGED <<pendingRequest, attempts>>
       ELSE LET l == load(pendingRequest)
                rejected == ~l.invoked /\
                            attempts[Follow(l.ret)].status \in {"rejected", "failed"}
                mounted == Rerender([Unmounted EXCEPT
                                        !.state = "waiting",
                                        !.delayed = options.delay,
                                        !.promise = l.ret,
                                        !.timeoutTimer = options.timeout],
                                    FALSE)
            IN  /\ l.invoked => Len(attempts) < MaxAttempts
                /\ attempts' = IF l.invoked THEN Append(attempts, NewAttempt) ELSE attempts
                \* load().catch runs onError at once when the promise is
                \* rejected already
                /\ pendingRequest' = IF rejected THEN 0 ELSE l.ret
                /\ inst' = [inst EXCEPT ![i] =
                              IF rejected
                              THEN Rerender([mounted EXCEPT !.error = "load"], FALSE)
                              ELSE mounted]
    /\ UNCHANGED <<options, resolvedComp, retries>>
    /\ UNCHANGED <<reactiveVars, keepAliveVars, effectVars, hookVars>>

\* The delay timer of instance i fires (lines 156-158); it is pending as long
\* as delayed is true.  Timers of one duration fire in the order they were
\* set, that is in the order of the setups.
DelayFire(i) ==
    /\ inst[i].state = "waiting"
    /\ inst[i].delayed
    /\ \A j \in Instances : j < i => ~inst[j].delayed
    /\ inst' = [inst EXCEPT ![i] = Rerender([@ EXCEPT !.delayed = FALSE], resolvedComp)]
    /\ UNCHANGED <<options, pendingRequest, resolvedComp, retries, attempts>>
    /\ UNCHANGED <<reactiveVars, keepAliveVars, effectVars, hookVars>>

\* The timeout timer of instance i fires (lines 163-175).
TimeoutFire(i) ==
    /\ inst[i].timeoutTimer
    /\ \A j \in Instances : j < i => ~inst[j].timeoutTimer
    /\ IF TimedOut(inst[i])
       THEN /\ pendingRequest' = 0
            /\ inst' = [inst EXCEPT ![i] =
                          Rerender([@ EXCEPT !.timeoutTimer = FALSE,
                                             !.error = "timeout",
                                             !.timeoutErrors = @ + 1],
                                   resolvedComp)]
       ELSE /\ inst' = [inst EXCEPT ![i].timeoutTimer = FALSE]
            /\ UNCHANGED pendingRequest
    /\ UNCHANGED <<options, resolvedComp, retries, attempts>>
    /\ UNCHANGED <<reactiveVars, keepAliveVars, effectVars, hookVars>>

\* The promise loader() returned for attempt a fulfils: the then of line
\* 103 sets resolvedComp, and the then of line 180 of every instance
\* waiting on it sets loaded.
LoaderResolve(a) ==
    /\ a \in DOMAIN attempts
    /\ attempts[a].status = "pending"
    /\ attempts' = [attempts EXCEPT ![a].status = "resolved"]
    /\ resolvedComp' = TRUE
    /\ inst' = [i \in Instances |->
                  IF i \in Waiting(a)
                  THEN Rerender([inst[i] EXCEPT !.loaded = TRUE,
                                                !.loadedDelayed = inst[i].delayed],
                                TRUE)
                  ELSE inst[i]]
    /\ UNCHANGED <<options, pendingRequest, retries>>
    /\ UNCHANGED <<reactiveVars, keepAliveVars, effectVars, hookVars>>

\* The catch of line 188 that forgets error.value = err.
Rejected_NoError(a) ==
    /\ pendingRequest' = IF Waiting(a) # {} THEN 0 ELSE pendingRequest
    /\ inst' = inst

\* The rejection of attempt a reaches the catch of line 188 of every
\* instance waiting on it: onError, then error.value = err.
Rejected(a) ==
    /\ pendingRequest' = IF Waiting(a) # {} THEN 0 ELSE pendingRequest
    /\ inst' = [i \in Instances |->
                  IF i \in Waiting(a)
                  THEN Rerender([inst[i] EXCEPT !.error = "load"], resolvedComp)
                  ELSE inst[i]]

\* The promise loader() returned for attempt a rejects (lines 87-102): with
\* a user onError the handler is called and decides later; without one the
\* error is rethrown.
LoaderReject(a) ==
    /\ a \in DOMAIN attempts
    /\ attempts[a].status = "pending"
    /\ IF options.onError
       THEN /\ attempts' = [attempts EXCEPT ![a].status = "handler",
                                              ![a].handlerArg = HandlerAttempts(retries)]
            /\ UNCHANGED <<pendingRequest, inst>>
       ELSE /\ attempts' = [attempts EXCEPT ![a].status = "rejected"]
            /\ Rejected(a)
    /\ UNCHANGED <<options, resolvedComp, retries>>
    /\ UNCHANGED <<reactiveVars, keepAliveVars, effectVars, hookVars>>

\* The user handler called for attempt a calls its retry callback
\* (lines 67-74 and 94): retries++, pendingRequest = null, load(); the first
\* settlement of the handler's promise makes it follow the new attempt.
UserRetry(a) ==
    /\ a \in DOMAIN attempts
    /\ attempts[a].status \in {"handler", "follows", "failed"}
    /\ Len(attempts) < MaxAttempts
    /\ LET l == load(0)
       IN  /\ retries' = retries + 1
           /\ pendingRequest' = l.ret
           /\ attempts' =
                Append(IF attempts[a].status = "handler"
                       THEN [attempts EXCEPT ![a].status = "follows", ![a].next = l.ret]
                       ELSE attempts,
                       NewAttempt)
    /\ UNCHANGED <<options, resolvedComp, inst>>
    /\ UNCHANGED <<reactiveVars, keepAliveVars, effectVars, hookVars>>

\* The user handler called for attempt a calls its fail callback (line 95).
UserFail(a) ==
    /\ a \in DOMAIN attempts
    /\ attempts[a].status = "handler"
    /\ attempts' = [attempts EXCEPT ![a].status = "failed"]
    /\ Rejected(a)
    /\ UNCHANGED <<options, resolvedComp, retries>>
    /\ UNCHANGED <<reactiveVars, keepAliveVars, effectVars, hookVars>>

NextAsync ==
    \/ \E i \in Instances : Setup(i)
    \/ \E i \in Instances : DelayFire(i)
    \/ \E i \in Instances : TimeoutFire(i)
    \/ \E a \in 1..MaxAttempts : LoaderResolve(a)
    \/ \E a \in 1..MaxAttempts : LoaderReject(a)
    \/ \E a \in 1..MaxAttempts : UserRetry(a)
    \/ \E a \in 1..MaxAttempts : UserFail(a)

----------------------------------------------------------------------------
(***************************************************************************)
(* KEEPALIVE                                                               *)
(*                                                                         *)
(* One KeepAlive instance.  A vnode is a record [type, key]; the cache key *)
(* of a vnode is its key, or its type when it has none.  A render of the   *)
(* instance is followed by its post-flush jobs: the include/exclude        *)
(* watcher (flush: 'post'), queued when the props were updated, and then   *)
(* the mounted/updated hook, queued after the patch.                       *)
(***************************************************************************)

\* Bound on the values of the max prop (0 is "no max").
MaxMax == 2

NullKey == "null"
NoKey == "nokey"
NullVNode == [type |-> "null", key |-> NullKey]

\* Components: A and B, N, a component without a name, and W, an async
\* wrapper whose loaded component is named I.
CompTypes == {"A", "B", "N", "W"}
VNodeKeys == {NoKey, "k1"}
\* The component vnodes rendered: each component without a key, and A also
\* with the key k1.
VNodes == {v \in [type : CompTypes, key : VNodeKeys] : v.key = NoKey \/ v.type = "A"}

\* What slots.default gives a render: nothing (no default slot), several
\* children, one child that is no component, or one component vnode.
NoSlot == [type |-> "noslot", key |-> NullKey]
Several == [type |-> "several", key |-> NullKey]
Element == [type |-> "element", key |-> NullKey]
Children == {NoSlot, Several, Element} \cup VNodes

\* A match pattern as the set of names it matches; on is its truthiness.
NoPattern == [on |-> FALSE, names |-> {}]
Pattern(names) == [on |-> TRUE, names |-> names]
IncludeChoices == {NoPattern, Pattern({"A", "I"})}
ExcludeChoices == {NoPattern, Pattern({"B", "I"})}
PropsChoices == [include : IncludeChoices, exclude : ExcludeChoices, max : 0..MaxMax]

isAsyncWrapper(type) == type = "W"

\* The name of a component that has none (undefined, falsy).
NoName == ""

\* getComponentName(Component): the wrapper is named AsyncComponentWrapper.
getComponentName(type) ==
    CASE type = "W" -> "AsyncComponentWrapper"
      [] type = "N" -> NoName
      [] OTHER      -> type

\* getComponentName(__asyncResolved) for a wrapper, of the type otherwise
\* (lines 262-266).
RenderName(type) == IF isAsyncWrapper(type) THEN "I" ELSE getComponentName(type)

matches(pattern, name) == name \in pattern.names

\* The eligibility test without its include half.
NotCached_IgnoresInclude(include, exclude, name) ==
    exclude.on /\ name # NoName /\ matches(exclude, name)

\* Lines 271-274: the child takes no part in caching.
NotCached(include, exclude, name) ==
    \/ include.on /\ (name = NoName \/ ~matches(include, name))
    \/ exclude.on /\ name # NoName /\ matches(exclude, name)

\* Line 281.
CacheKeyOf(vnode) == IF vnode.key = NoKey THEN vnode.type ELSE vnode.key

Range(seq) == {seq[i] : i \in DOMAIN seq}
SeqRemove(seq, x) == SelectSeq(seq, LAMBDA y : y # x)

\* keys.add(key)
KeysAdd(ks, key) == IF key \in Range(ks) THEN ks ELSE Append(ks, key)

\* keys.delete(key)
KeysDelete(ks, key) == SeqRemove(ks, key)

\* The hit branch that leaves the key where it was.
Refresh_NoMove(ks, key) == KeysAdd(ks, key)

\* Lines 300-301: make this key the freshest.
Refresh(ks, key) == KeysAdd(KeysDelete(ks, key), key)

\* cache.delete(key)
CacheDelete(c, key) == [k \in (DOMAIN c) \ {key} |-> c[k]]

\* cache.set(key, vnode)
CacheSet(c, key, vnode) ==
    [k \in (DOMAIN c) \cup {key} |-> IF k = key THEN vnode ELSE c[k]]

\* What an eviction does to the evicted subtree (lines 171-178) on
\* st = [keys, cache, unmounted, reset]: unmount(cached), or
\* resetShapeFlag(current) when current has the type of cached.
EvictSubtree(st, key) ==
    IF current = NullVNode \/ st.cache[key].type # current.type
    THEN [st EXCEPT !.unmounted = @ \cup {key}]
    ELSE [st EXCEPT !.reset = TRUE]

\* pruneCacheEntry that forgets keys.delete.
pruneCacheEntry_KeepsKey(st, key) ==
    IF key \in DOMAIN st.cache
    THEN [EvictSubtree(st, key) EXCEPT !.cache = CacheDelete(st.cache, key)]
    ELSE st

\* pruneCacheEntry(key) on st = [keys, cache, unmounted, reset] (lines
\* 170-181).  Reading cached.type of a key the cache does not hold throws
\* before anything is changed.
pruneCacheEntry(st, key) ==
    IF key \in DOMAIN st.cache
    THEN [EvictSubtree(st, key) EXCEPT !.keys = KeysDelete(st.keys, key),
                                       !.cache = CacheDelete(st.cache, key)]
    ELSE st

\* pruneCache(filter) (lines 162-169): every cached entry whose component
\* has a name, and one the filter rejects, is pruned.  The filter is matches(pattern,
\* name) for include and its negation for exclude.
pruneCache(st, pattern, negated) ==
    LET keep(name) == IF negated THEN ~matches(pattern, name) ELSE matches(pattern, name)
        gone == {k \in DOMAIN st.cache :
                    /\ getComponentName(st.cache[k].type) # NoName
                    /\ ~keep(getComponentName(st.cache[k].type))}
        RECURSIVE Each(_, _)
        Each(s, ks) == IF ks = {} THEN s
                       ELSE LET k == CHOOSE x \in ks : TRUE
                            IN  Each(pruneCacheEntry(s, k), ks \ {k})
    IN  Each(st, gone)

\* The watcher's callback (lines 187-191).
WatchCallback(st, include, exclude) ==
    LET afterInclude == IF include.on THEN pruneCache(st, include, FALSE) ELSE st
    IN  IF exclude.on THEN pruneCache(afterInclude, exclude, TRUE) ELSE afterInclude

\* The eviction test that lets one key too many in.
MaxExceeded_OffByOne(size, max) == max # 0 /\ size > max + 1

\* Line 308: max && keys.size > parseInt(max, 10)
MaxExceeded(size, max) == max # 0 /\ size > max

\* The miss branch (lines 305-311) on st = [keys, cache].
Miss(st, key, max) ==
    LET added == [st EXCEPT !.keys = KeysAdd(st.keys, key)]
    IN  IF MaxExceeded(Len(added.keys), max)
        THEN pruneCacheEntry(added, added.keys[1])
        ELSE added

InitKeepAlive ==
    /\ props = [include |-> NoPattern, exclude |-> NoPattern, max |-> 0]
    /\ keys = <<>>
    /\ cache = <<>>
    /\ current = NullVNode
    /\ pendingCacheKey = NullKey
    /\ phase = "setup"
    /\ watchPending = FALSE
    /\ recency = <<>>
    /\ lastRender = [outcome |-> "none", evicted |-> NullKey]
    /\ lastPrune = [unmounted |-> {}, reset |-> FALSE, da |-> 0]

\* The render function (lines 229-319), run with the props np and the slot
\* content child.  Outside the first render, a change of include or exclude
\* queues the watcher.
Render(child, np) ==
    /\ phase \in {"setup", "idle"}
    /\ props' = np
    /\ watchPending' = (phase = "idle" /\
                        (np.include # props.include \/ np.exclude # props.exclude))
    /\ phase' = "rendered"
    /\ IF child = NoSlot
       THEN /\ pendingCacheKey' = NullKey
            /\ lastRender' = [outcome |-> "empty", evicted |-> NullKey]
            /\ lastPrune' = [unmounted |-> {}, reset |-> FALSE, da |-> 0]
            /\ UNCHANGED <<keys, cache, current, recency>>
       ELSE IF child \in {Several, Element}
       THEN /\ pendingCacheKey' = NullKey
            /\ current' = NullVNode
            /\ lastRender' = [outcome |-> "none", evicted |-> NullKey]
            /\ lastPrune' = [unmounted |-> {}, reset |-> FALSE, da |-> 0]
            /\ UNCHANGED <<keys, cache, recency>>
       ELSE IF NotCached(np.include, np.exclude, RenderName(child.type))
       THEN /\ pendingCacheKey' = NullKey
            /\ current' = child
            /\ lastRender' = [outcome |-> "none", evicted |-> NullKey]
            /\ lastPrune' = [unmounted |-> {}, reset |-> FALSE, da |-> 0]
            /\ UNCHANGED <<keys, cache, recency>>
       ELSE LET key == CacheKeyOf(child)
                st == [keys |-> keys, cache |-> cache, unmounted |-> {}, reset |-> FALSE]
                hit == key \in DOMAIN cache
                new == IF hit
                       THEN [st EXCEPT !.keys = Refresh(keys, key)]
                       ELSE Miss(st, key, np.max)
                out == (DOMAIN cache) \ (DOMAIN new.cache)
            IN  /\ pendingCacheKey' = key
                /\ keys' = new.keys
                /\ cache' = new.cache
                /\ current' = child
                /\ recency' = SelectSeq(Append(SeqRemove(recency, key), key),
                                         LAMBDA k : k \in Range(new.keys))
                /\ lastRender' =
                     [outcome |-> IF hit THEN "hit" ELSE "miss",
                      evicted |-> IF out = {} THEN NullKey ELSE CHOOSE k \in out : TRUE]
                /\ lastPrune' = [unmounted |-> new.unmounted, reset |-> new.reset, da |-> 0]
    /\ UNCHANGED <<reactiveVars, asyncVars, effectVars, hookVars>>

\* The post-flush jobs of one flush run in the order they were queued: the
\* watcher, queued by the props update, before the hook, queued by the patch.
HookIsNext == ~watchPending

\* The include/exclude watcher runs (lines 185-194).
Prune ==
    /\ phase = "rendered"
    /\ watchPending
    /\ LET new == WatchCallback([keys |-> keys, cache |-> cache,
                                 unmounted |-> {}, reset |-> FALSE],
                                props.include, props.exclude)
       IN  /\ keys' = new.keys
           /\ lastPrune' = [unmounted |-> new.unmounted, reset |-> new.reset, da |-> 0]
           /\ cache' = new.cache
           /\ recency' = SelectSeq(recency, LAMBDA k : k \in Range(new.keys))
    /\ watchPending' = FALSE
    /\ UNCHANGED <<props, current, pendingCacheKey, phase, lastRender>>
    /\ UNCHANGED <<reactiveVars, asyncVars, effectVars, hookVars>>

\* cacheSubtree (lines 199-208): instance.subTree is the vnode the render
\* returned, which is current whenever pendingCacheKey is set.
cacheSubtree(c) ==
    IF pendingCacheKey # NullKey THEN CacheSet(c, pendingCacheKey, current) ELSE c

\* The mounted / updated hook runs (lines 210-211).
Hook ==
    /\ phase = "rendered"
    /\ HookIsNext
    /\ cache' = cacheSubtree(cache)
    /\ phase' = "idle"
    /\ UNCHANGED <<props, keys, current, pendingCacheKey, watchPending, recency,
                   lastRender, lastPrune>>
    /\ UNCHANGED <<reactiveVars, asyncVars, effectVars, hookVars>>

\* instance.subTree after the hook: the vnode the last render returned.  A
\* render without a default slot returns null and leaves current as it was.
SubTree == IF lastRender.outcome = "empty" THEN NullVNode ELSE current

\* The onBeforeUnmount callback (lines 212-226) over the cache c, vnode being
\* getInnerChild(instance.subTree): an entry of vnode's type resets the flags
\* of vnode and queues the deactivation hooks of its component, every other
\* entry is unmounted (lines 157-161).  da counts the queuePostRenderEffect
\* calls.
BeforeUnmount(c, vnode) ==
    LET sameType == {k \in DOMAIN c : c[k].type = vnode.type}
    IN  [unmounted |-> (DOMAIN c) \ sameType,
         reset |-> sameType # {},
         da |-> Cardinality(sameType)]

\* The KeepAlive instance is unmounted while no job of its own is pending.
Unmount ==
    /\ phase = "idle"
    /\ phase' = "unmounted"
    /\ lastPrune' = BeforeUnmount(cache, SubTree)
    /\ UNCHANGED <<props, keys, cache, current, pendingCacheKey, watchPending, recency,
                   lastRender>>
    /\ UNCHANGED <<reactiveVars, asyncVars, effectVars, hookVars>>

NextKeepAlive ==
    \/ \E child \in Children, np \in PropsChoices : Render(child, np)
    \/ Prune
    \/ Hook
    \/ Unmount

----------------------------------------------------------------------------
(***************************************************************************)
(* EFFECTS AND EFFECT SCOPES                                               *)
(*                                                                         *)
(* The script myTest/index.js: a reactive object person, an effect that    *)
(* reads person.age created inside scope.run, writes to person, and        *)
(* scope.stop().  Next to the scoped effect there is a free one, created   *)
(* outside any scope.  effect, effectScope, track and trigger are modelled *)
(* from their contract: an effect runs at once when it is created and      *)
(* registers the properties it reads; a write that changes a property runs *)
(* the effects registered for it, synchronously; stopping a scope stops    *)
(* the effects created in it and removes them from every dependency set.   *)
(***************************************************************************)

\* Bound on the number of writes to person in one run.
MaxWrites == 4

\* The properties of person and the values written to them.
Properties == {"age", "size"}
PropertyValues == 20..24

EffectNames == {"scoped", "free"}

\* The properties the function of an effect reads: person.age (line 12).
ReadsOf(e) == {"age"}

NoEffect == [state |-> "none", deps |-> {}, runs |-> 0]

\* One run of the function of an effect: it registers what it reads anew.
RunEffect(r, e) == [r EXCEPT !.deps = ReadsOf(e), !.runs = @ + 1]

\* scope.stop() that leaves the effects of the scope as they are.
StopEffect_Noop(r) == r

\* What scope.stop() does to an effect of the scope: inactive, and in no
\* dependency set any more.
StopEffect(r) == [r EXCEPT !.state = "stopped", !.deps = {}]

\* trigger(person, p): the active effects registered for p.
Triggered(p) == {e \in EffectNames : effects[e].state = "active" /\ p \in effects[e].deps}

InitEffect ==
    /\ person = [p \in Properties |-> 20]
    /\ scope = "none"
    /\ effects = [e \in EffectNames |-> NoEffect]
    /\ writes = [all |-> 0, afterStop |-> 0]

\* const scope = effectScope() (line 4).
CreateScope ==
    /\ scope = "none"
    /\ scope' = "active"
    /\ UNCHANGED <<person, effects, writes>>
    /\ UNCHANGED <<reactiveVars, asyncVars, keepAliveVars, hookVars>>

\* scope.run(() => effect(fn)) (lines 10-14): an inactive scope does not
\* call the function it is given.
RunInScope ==
    /\ scope = "active"
    /\ effects["scoped"].state = "none"
    /\ effects' = [effects EXCEPT !["scoped"] =
                      RunEffect([NoEffect EXCEPT !.state = "active"], "scoped")]
    /\ UNCHANGED <<person, scope, writes>>
    /\ UNCHANGED <<reactiveVars, asyncVars, keepAliveVars, hookVars>>

\* effect(fn) outside of any scope.
CreateFree ==
    /\ effects["free"].state = "none"
    /\ effects' = [effects EXCEPT !["free"] =
                      RunEffect([NoEffect EXCEPT !.state = "active"], "free")]
    /\ UNCHANGED <<person, scope, writes>>
    /\ UNCHANGED <<reactiveVars, asyncVars, keepAliveVars, hookVars>>

\* person[p] = v (person.age++ of lines 16, 18 and 19 is v = person.age + 1):
\* a write that changes the value triggers the effects registered for p.
Write(p, v) ==
    /\ writes.all < MaxWrites
    /\ person' = [person EXCEPT ![p] = v]
    /\ effects' = [e \in EffectNames |->
                     IF person[p] # v /\ e \in Triggered(p)
                     THEN RunEffect(effects[e], e)
                     ELSE effects[e]]
    /\ writes' = [all |-> writes.all + 1,
                  afterStop |-> IF scope = "stopped" THEN writes.afterStop + 1
                                ELSE writes.afterStop]
    /\ UNCHANGED scope
    /\ UNCHANGED <<reactiveVars, asyncVars, keepAliveVars, hookVars>>

\* scope.stop() (line 17).
StopScope ==
    /\ scope = "active"
    /\ scope' = "stopped"
    /\ effects' = [effects EXCEPT !["scoped"] =
                      IF @.state = "active" THEN StopEffect(@) ELSE @]
    /\ UNCHANGED <<person, writes>>
    /\ UNCHANGED <<reactiveVars, asyncVars, keepAliveVars, hookVars>>

NextEffect ==
    \/ CreateScope
    \/ RunInScope
    \/ CreateFree
    \/ \E p \in Properties, v \in PropertyValues : Write(p, v)
    \/ StopScope

----------------------------------------------------------------------------
(***************************************************************************)
(* ACTIVATION AND ITS HOOKS                                                *)
(*                                                                         *)
(* A chain of component instances with two KeepAlive instances in it:      *)
(*     App - KA - X - KA2 - V                                              *)
(* X is the child KA keeps alive, V the child KA2 keeps alive inside X.    *)
(* The renderer calls sharedContext.deactivate instead of unmounting a     *)
(* kept-alive child and sharedContext.activate instead of mounting a       *)
(* cached one; both queue a post-flush callback.  User code registers      *)
(* hooks with onActivated / onDeactivated.                                 *)
(***************************************************************************)

\* Bound on the number of onActivated / onDeactivated registrations.
MaxRegistrations == 2

\* Bound on the number of post-flush callbacks waiting at one time.
MaxQueued == 2

NoInstance == "none"
Components == {"App", "KA", "X", "KA2", "V"}

\* instance.parent
Parent(i) ==
    CASE i = "App" -> NoInstance
      [] i = "KA"  -> "App"
      [] i = "X"   -> "KA"
      [] i = "KA2" -> "X"
      [] i = "V"   -> "KA2"

\* isKeepAlive(instance.vnode)
isKeepAlive(i) == i \in {"KA", "KA2"}

\* The children of a KeepAlive: the instances that are activated and
\* deactivated.
KeptAlive == {i \in Components : Parent(i) # NoInstance /\ isKeepAlive(Parent(i))}

\* The hook functions user code passes, and the two hook types.
HookFns == {"f", "g"}
HookTypes == {"a", "da"}

\* The instances from i up to the root, i included.
RECURSIVE PathUp(_)
PathUp(i) == IF i = NoInstance THEN {} ELSE {i} \cup PathUp(Parent(i))

\* The wrapper hook.__wdc called with the flags as they are (lines 370-382):
\* whether it calls hook().  Its target is the one of the closure, the
\* target of the registration that created the wrapper.
wrappedHook(h, flags) == \A i \in PathUp(wdc[h]) : ~flags[i]

\* invokeArrayFns over an a or da array: the entries whose user callback
\* was called.  An entry is [hook, target], target being the target of the
\* registration that put it there.
invokeArrayFns(fns, flags) == {fns[n] : n \in {m \in DOMAIN fns : wrappedHook(fns[m].hook, flags)}}

\* injectHook(type, hook, target, prepend) on the array target[type].
injectHook(fns, entry, prepend) ==
    IF prepend THEN <<entry>> \o fns ELSE Append(fns, entry)

\* The keep-alive roots above target (lines 389-396): the proper ancestors
\* whose parent is a KeepAlive.
KeepAliveRoots(target) ==
    {c \in PathUp(Parent(target)) : Parent(c) # NoInstance /\ isKeepAlive(Parent(c))}

\* injectToKeepAliveRoot (lines 400-412) on the array of the root.
injectToKeepAliveRoot(fns, entry) == injectHook(fns, entry, TRUE)

\* registerKeepAliveHook(hook, type, target) (lines 362-398) on
\* st = [wdc, injected]: the wrapper is hook.__wdc when there is one, a new
\* one closing over target otherwise; it is injected on the target and, in
\* front, on every keep-alive root above it.
registerKeepAliveHook(st, h, type, target) ==
    LET entry == [hook |-> h, target |-> target]
    IN  [wdc |-> [st.wdc EXCEPT ![h] = IF @ = NoInstance THEN target ELSE @],
         injected |->
            [c \in KeptAlive |->
                [t \in HookTypes |->
                    IF t # type THEN st.injected[c][t]
                    ELSE IF c = target THEN injectHook(st.injected[c][t], entry, FALSE)
                    ELSE IF c \in KeepAliveRoots(target)
                         THEN injectToKeepAliveRoot(st.injected[c][t], entry)
                    ELSE st.injected[c][t]]]]

\* The registrations made so far: <<hook, type, target>>.
Registered ==
    {r \in HookFns \X HookTypes \X KeptAlive :
        [hook |-> r[1], target |-> r[3]] \in Range(injected[r[3]][r[2]])}

\* The post-flush callback of deactivate that sets the flag first.
DeactivateCallback_FlagFirst(flags, c) ==
    [atHooks |-> [flags EXCEPT ![c] = TRUE], after |-> [flags EXCEPT ![c] = TRUE]]

\* The post-flush callback of activate (lines 130-139): the flags when the
\* hooks are invoked, and after the callback.
ActivateCallback(flags, c) ==
    [atHooks |-> [flags EXCEPT ![c] = FALSE], after |-> [flags EXCEPT ![c] = FALSE]]

\* The post-flush callback of deactivate (lines 145-154).
DeactivateCallback(flags, c) ==
    [atHooks |-> flags, after |-> [flags EXCEPT ![c] = TRUE]]

\* The renderer mounts a kept-alive child for the first time, inside a
\* KeepAlive that is mounted.
CanMount(c) ==
    /\ place[c] = "unmounted"
    /\ \A d \in PathUp(Parent(c)) \cap KeptAlive : place[d] # "unmounted"

\* The renderer calls activate for a cached child that is in storage, and
\* deactivate for a kept-alive child that is removed from the tree.
CanActivate(c) == place[c] = "stored"
CanDeactivate(c) == place[c] = "active"

InitHooks ==
    /\ place = [c \in KeptAlive |-> "unmounted"]
    /\ isDeactivated = [i \in Components |-> FALSE]
    /\ postQueue = <<>>
    /\ wdc = [h \in HookFns |-> NoInstance]
    /\ injected = [c \in KeptAlive |-> [t \in HookTypes |-> <<>>]]
    /\ lastCall = [c \in KeptAlive |-> "none"]
    /\ lastRun = [inst |-> NoInstance, type |-> "none",
                  flags |-> [i \in Components |-> FALSE], entries |-> {}, called |-> {}]

\* A kept-alive child is mounted.
MountChild(c) ==
    /\ CanMount(c)
    /\ place' = [place EXCEPT ![c] = "active"]
    /\ UNCHANGED <<isDeactivated, postQueue, wdc, injected, lastCall, lastRun>>
    /\ UNCHANGED <<reactiveVars, asyncVars, keepAliveVars, effectVars>>

\* sharedContext.activate (lines 114-140).
Activate(c) ==
    /\ CanActivate(c)
    /\ Len(postQueue) < MaxQueued
    /\ place' = [place EXCEPT ![c] = "active"]
    /\ postQueue' = Append(postQueue, [op |-> "activate", inst |-> c])
    /\ lastCall' = [lastCall EXCEPT ![c] = "activate"]
    /\ UNCHANGED <<isDeactivated, wdc, injected, lastRun>>
    /\ UNCHANGED <<reactiveVars, asyncVars, keepAliveVars, effectVars>>

\* sharedContext.deactivate (lines 141-155).
Deactivate(c) ==
    /\ CanDeactivate(c)
    /\ Len(postQueue) < MaxQueued
    /\ place' = [place EXCEPT ![c] = "stored"]
    /\ postQueue' = Append(postQueue, [op |-> "deactivate", inst |-> c])
    /\ lastCall' = [lastCall EXCEPT ![c] = "deactivate"]
    /\ UNCHANGED <<isDeactivated, wdc, injected, lastRun>>
    /\ UNCHANGED <<reactiveVars, asyncVars, keepAliveVars, effectVars>>

\* The oldest post-flush callback runs.
PostFlush ==
    /\ postQueue # <<>>
    /\ LET cb == Head(postQueue)
           type == IF cb.op = "activate" THEN "a" ELSE "da"
           r == IF cb.op = "activate"
                THEN ActivateCallback(isDeactivated, cb.inst)
                ELSE DeactivateCallback(isDeactivated, cb.inst)
       IN  /\ isDeactivated' = r.after
           /\ lastRun' = [inst |-> cb.inst, type |-> type, flags |-> r.atHooks,
                          entries |-> Range(injected[cb.inst][type]),
                          called |-> invokeArrayFns(injected[cb.inst][type], r.atHooks)]
    /\ postQueue' = Tail(postQueue)
    /\ UNCHANGED <<place, wdc, injected, lastCall>>
    /\ UNCHANGED <<reactiveVars, asyncVars, keepAliveVars, effectVars>>

\* onActivated(hook, target) / onDeactivated(hook, target) (lines 348-360).
RegisterHook(h, type, target) ==
    /\ place[target] # "unmounted"
    /\ <<h, type, target>> \notin Registered
    /\ Cardinality(Registered) < MaxRegistrations
    /\ LET new == registerKeepAliveHook([wdc |-> wdc, injected |-> injected],
                                        h, type, target)
       IN  /\ wdc' = new.wdc
           /\ injected' = new.injected
    /\ UNCHANGED <<place, isDeactivated, postQueue, lastCall, lastRun>>
    /\ UNCHANGED <<reactiveVars, asyncVars, keepAliveVars, effectVars>>

NextHooks ==
    \/ \E c \in KeptAlive : MountChild(c)
    \/ \E c \in KeptAlive : Activate(c)
    \/ \E c \in KeptAlive : Deactivate(c)
    \/ PostFlush
    \/ \E h \in HookFns, type \in HookTypes, target \in KeptAlive :
           RegisterHook(h, type, target)

----------------------------------------------------------------------------
(***************************************************************************)
(* SPECIFICATIONS                                                          *)
(* Each part runs alone, the other parts resting in a fixed state.         *)
(***************************************************************************)

ReactiveAtRest ==
    /\ reactiveMap = <<>>
    /\ shallowReactiveMap = <<>>
    /\ readonlyMap = <<>>
    /\ shallowReadonlyMap = <<>>
    /\ proxies = {}
    /\ skipped = {}
    /\ nonExtensible = {}
    /\ rawType = "Object"
    /\ call = [op |-> "none", arg |-> Undefined, kind |-> "none"]
    /\ ret = Undefined
    /\ warned = FALSE
    /\ made = Undefined
    /\ firstWrap = <<>>

AsyncAtRest ==
    /\ options = [onError |-> FALSE, timeout |-> FALSE, delay |-> FALSE,
                  errorComponent |-> FALSE, loadingComponent |-> FALSE]
    /\ pendingRequest = 0
    /\ resolvedComp = FALSE
    /\ retries = 0
    /\ attempts = <<>>
    /\ inst = <<>>

KeepAliveAtRest ==
    /\ props = [include |-> NoPattern, exclude |-> NoPattern, max |-> 0]
    /\ keys = <<>>
    /\ cache = <<>>
    /\ current = NullVNode
    /\ pendingCacheKey = NullKey
    /\ phase = "setup"
    /\ watchPending = FALSE
    /\ recency = <<>>
    /\ lastRender = [outcome |-> "none", evicted |-> NullKey]
    /\ lastPrune = [unmounted |-> {}, reset |-> FALSE, da |-> 0]

EffectAtRest ==
    /\ person = [p \in Properties |-> 20]
    /\ scope = "none"
    /\ effects = [e \in EffectNames |-> NoEffect]
    /\ writes = [all |-> 0, afterStop |-> 0]

HooksAtRest == InitHooks

InitReactiveAlone ==
    InitReactive /\ AsyncAtRest /\ KeepAliveAtRest /\ EffectAtRest /\ HooksAtRest
InitAsyncAlone ==
    InitAsync /\ ReactiveAtRest /\ KeepAliveAtRest /\ EffectAtRest /\ HooksAtRest
InitKeepAliveAlone ==
    InitKeepAlive /\ ReactiveAtRest /\ AsyncAtRest /\ EffectAtRest /\ HooksAtRest
InitEffectAlone ==
    InitEffect /\ ReactiveAtRest /\ AsyncAtRest /\ KeepAliveAtRest /\ HooksAtRest
InitHooksAlone ==
    InitHooks /\ ReactiveAtRest /\ AsyncAtRest /\ KeepAliveAtRest /\ EffectAtRest

SpecReactive == InitReactiveAlone /\ [][NextReactive]_vars

SpecAsync == InitAsyncAlone /\ [][NextAsync]_vars

SpecKeepAlive == InitKeepAliveAlone /\ [][NextKeepAlive]_vars

SpecEffect == InitEffectAlone /\ [][NextEffect]_vars

SpecHooks == InitHooksAlone /\ [][NextHooks]_vars

----------------------------------------------------------------------------
(***************************************************************************)
(* CLAIMS ABOUT KEEPALIVE (checked under SpecKeepAlive)                    *)
(***************************************************************************)

Max(a, b) == IF a > b THEN a ELSE b

\* A step that is one run of the render function.
RenderStep == phase # "rendered" /\ phase' = "rendered"

\* C1 as stated: keys and the key set of cache are equal in every state.
C1_KeysEqualCache == Range(keys) = DOMAIN cache

\* C1 amended: every key in keys is a key of cache, except the key of the
\* last render (pendingCacheKey) while that render's mounted/updated hook
\* has not run yet; keys holds no key twice.
C1_KeysWithinCache ==
    /\ Range(keys) \ (DOMAIN cache) \subseteq
           (IF phase = "rendered" THEN {pendingCacheKey} ELSE {})
    /\ Cardinality(Range(keys)) = Len(keys)

\* A cache miss has evicted an entry and its hook has not run: its key is in
\* keys and not yet in cache.
C1_Witness ==
    /\ phase = "rendered"
    /\ lastRender.outcome = "miss"
    /\ lastRender.evicted # NullKey
    /\ pendingCacheKey \in Range(keys)
    /\ pendingCacheKey \notin DOMAIN cache

\* C2 as stated: with a max configured, keys and cache never hold more than
\* max entries.
C2_SizeWithinMax ==
    props.max # 0 =>
        /\ Len(keys) <= props.max
        /\ Cardinality(DOMAIN cache) <= props.max

\* C2 amended: with a max configured, a cache-miss render leaves at most
\* max keys, or as many as there were before it when that was more already,
\* and adds nothing to cache.
C2_MissWithinMax ==
    [][(RenderStep /\ lastRender'.outcome = "miss" /\ props'.max # 0) =>
         /\ Len(keys') <= Max(Len(keys), props'.max)
         /\ Cardinality(DOMAIN cache') <= Cardinality(DOMAIN cache)
      ]_vars

\* A cache miss at a full cache has evicted an entry and left max keys.
C2_Witness ==
    /\ lastRender.outcome = "miss"
    /\ lastRender.evicted # NullKey
    /\ props.max # 0
    /\ Len(keys) = props.max

\* n keys are more than a configured max allows.
OverMax(n, max) == max # 0 /\ n > max

\* C3: a cache hit makes its key the last (freshest) of keys and evicts
\* nothing; a cache miss that takes the number of keys above max removes
\* exactly one entry from keys and cache, the one whose latest render is the
\* oldest, so that a next render of it is a miss and of any other a hit; any
\* other miss only appends its key.
C3_EvictsLeastRecentlyRendered ==
    [][RenderStep =>
         /\ lastRender'.outcome = "hit" =>
              /\ keys'[Len(keys')] = pendingCacheKey'
              /\ Range(keys') = Range(keys) \cup {pendingCacheKey'}
              /\ cache' = cache
              /\ lastRender'.evicted = NullKey
         /\ (lastRender'.outcome = "miss" /\ OverMax(Len(keys) + 1, props'.max)) =>
              /\ recency # <<>>
              /\ lastRender'.evicted = recency[1]
              /\ keys' = Append(SeqRemove(keys, recency[1]), pendingCacheKey')
              /\ DOMAIN cache' = (DOMAIN cache) \ {recency[1]}
         /\ (lastRender'.outcome = "miss" /\ ~OverMax(Len(keys) + 1, props'.max)) =>
              /\ keys' = Append(keys, pendingCacheKey')
              /\ cache' = cache
              /\ lastRender'.evicted = NullKey
      ]_vars

\* With max = 2, after renders of A, B and W the entry of A is gone and the
\* entries of B and W are kept.
C3_Witness ==
    /\ props.max = 2
    /\ lastRender.outcome = "miss"
    /\ lastRender.evicted = "A"
    /\ keys = <<"B", "W">>
    /\ "A" \notin DOMAIN cache
    /\ "B" \in DOMAIN cache

\* A step that is one run of the mounted/updated hook.
HookStep == phase = "rendered" /\ phase' = "idle"

\* A step that is one run of the include/exclude watcher.
PruneStep == watchPending /\ ~watchPending' /\ phase = "rendered" /\ phase' = "rendered"

\* The name the eligibility rule of the render function goes by: the name
\* of the component, for an async wrapper the name of its resolved component.
EligibilityName(type) ==
    CASE type = "A" -> "A"
      [] type = "B" -> "B"
      [] type = "W" -> "I"
      [] OTHER      -> ""

\* The child v takes no part in caching under the props p: it is no single
\* component, its name fails include, it has no name while include is set,
\* or its name matches exclude.
Ineligible(v, p) ==
    \/ v = NullVNode
    \/ p.include.on /\ EligibilityName(v.type) \notin p.include.names
    \/ p.exclude.on /\ EligibilityName(v.type) \in p.exclude.names

\* C11: a render whose child takes no part in caching (wrong name for
\* include, no name with include set, name in exclude, no component, several
\* children) leaves keys and cache as they were, and so does the
\* mounted/updated hook that follows it.
C11_IneligibleLeavesCacheAlone ==
    [][((RenderStep \/ HookStep) /\ Ineligible(current', props')) =>
         /\ keys' = keys
         /\ cache' = cache
      ]_vars

\* With include "A,I", B was rendered next to a filled cache, its hook has
\* run, and B is in neither keys nor cache.
C11_Witness ==
    /\ phase = "idle"
    /\ current = [type |-> "B", key |-> NoKey]
    /\ props.include.on
    /\ ~props.exclude.on
    /\ pendingCacheKey = NullKey
    /\ cache # <<>>
    /\ "B" \notin DOMAIN cache
    /\ "B" \notin Range(keys)

\* C17: every entry evicted by a render or a prune is unmounted unless it is
\* the active subtree, which is not unmounted; and the flags of the active
\* subtree are cleared only when it is itself evicted.
C17_EvictionUnmountsUnlessActive ==
    [][(RenderStep \/ PruneStep) =>
         LET evicted == (DOMAIN cache) \ (DOMAIN cache')
         IN  /\ \A k \in evicted :
                    IF cache[k] = current
                    THEN k \notin lastPrune'.unmounted /\ lastPrune'.reset
                    ELSE k \in lastPrune'.unmounted
             /\ lastPrune'.reset => \E k \in evicted : cache[k] = current
      ]_vars

\* C20: after the prune that follows a change of include or exclude, cache
\* holds no entry that the eligibility rule of the render function rejects
\* under the new patterns, and every evicted entry is gone from keys too.
C20_PruneLeavesOnlyEligible ==
    [][PruneStep =>
         /\ \A k \in DOMAIN cache' : ~Ineligible(cache'[k], props')
         /\ \A k \in (DOMAIN cache) \ (DOMAIN cache') : k \notin Range(keys')
      ]_vars

\* The KeepAlive instance is unmounted.
UnmountStep == phase = "idle" /\ phase' = "unmounted"

\* C21: when the instance is unmounted, every cached subtree other than the
\* active one is unmounted, and the active one is not unmounted but has its
\* flags cleared and its deactivation hooks queued once, whatever the cache
\* holds.
C21_UnmountSparesOnlyActive ==
    [][UnmountStep =>
         \A k \in DOMAIN cache :
             IF cache[k] = SubTree
             THEN /\ k \notin lastPrune'.unmounted
                  /\ lastPrune'.reset
                  /\ lastPrune'.da = 1
             ELSE k \in lastPrune'.unmounted
      ]_vars

----------------------------------------------------------------------------
(***************************************************************************)
(* CLAIMS ABOUT THE ASYNC COMPONENT WRAPPER (checked under SpecAsync)      *)
(***************************************************************************)

\* The loader() invocations that have not settled.
InFlight == {a \in DOMAIN attempts : attempts[a].status = "pending"}

\* C4 as stated: at most one loader invocation is in flight at any time.
C4_SingleFlight == Cardinality(InFlight) <= 1

\* C4 amended: a load() call that finds pendingRequest set returns it and
\* does not call the loader; one that finds it null calls the loader once
\* and returns the new promise.  (A timeout or a retry sets pendingRequest
\* to null while the loader is still in flight.)
C4_LoadSharesPendingRequest ==
    [][\A i \in Instances :
         (inst[i].state = "unmounted" /\ inst'[i].state = "waiting") =>
             IF pendingRequest # 0
             THEN /\ inst'[i].promise = pendingRequest
                  /\ attempts' = attempts
             ELSE /\ Len(attempts') = Len(attempts) + 1
                  /\ inst'[i].promise = Len(attempts')
                  /\ attempts'[Len(attempts')].status = "pending"
      ]_vars

\* Two instances called load() during one attempt: one loader invocation,
\* one promise.
C4_Witness ==
    /\ inst[1].state = "waiting"
    /\ inst[2].state = "waiting"
    /\ inst[1].promise = inst[2].promise
    /\ Len(attempts) = 1
    /\ InFlight = {1}

\* The mounted instances that went through the load (not the short cut of
\* an already resolved component).
Mounted == {i \in Instances : inst[i].state = "waiting"}

\* C12: the last render of every mounted instance returned the real
\* component if loaded and a resolved component is there; else the error
\* component if an error is set and an error component is configured; else
\* the loading component if one is configured and the delay has passed; else
\* nothing.  During the delay the loading component is not rendered.
C12_RenderPriority ==
    \A i \in Mounted :
        /\ (inst[i].loaded /\ resolvedComp) => inst[i].view = "comp"
        /\ (~(inst[i].loaded /\ resolvedComp)
              /\ inst[i].error # "none" /\ options.errorComponent) =>
               inst[i].view = "error"
        /\ (~(inst[i].loaded /\ resolvedComp)
              /\ ~(inst[i].error # "none" /\ options.errorComponent)
              /\ options.loadingComponent /\ ~inst[i].delayed) =>
               inst[i].view = "loading"
        /\ (~(inst[i].loaded /\ resolvedComp)
              /\ ~(inst[i].error # "none" /\ options.errorComponent)
              /\ ~(options.loadingComponent /\ ~inst[i].delayed)) =>
               inst[i].view = "none"
        /\ inst[i].delayed => inst[i].view # "loading"

\* An instance with an error, past its delay, with both components
\* configured, shows the error component and not the loading component.
C12_Witness ==
    \E i \in Mounted :
        /\ options.errorComponent /\ options.loadingComponent /\ options.delay
        /\ inst[i].error # "none"
        /\ ~inst[i].delayed
        /\ ~inst[i].loaded
        /\ inst[i].view = "error"

\* C13: with a delay configured, an instance whose load resolved before its
\* delay timer fired never rendered the loading component; one whose load
\* resolved after the delay and before the timeout rendered the loading
\* component (if one is configured), now renders the real component and
\* never rendered the error component.
C13_DelaySuppressesLoading ==
    \A i \in Mounted :
        (options.delay /\ inst[i].loaded) =>
            /\ inst[i].loadedDelayed => ~inst[i].everLoading
            /\ (~inst[i].loadedDelayed /\ inst[i].error # "timeout") =>
                   /\ options.loadingComponent => inst[i].everLoading
                   /\ inst[i].view = "comp"
                   /\ ~inst[i].everError

\* The load of an instance resolved during the delay, the delay timer has
\* fired since, and the loading component was never rendered.
C13_Witness ==
    \E i \in Mounted :
        /\ options.delay /\ options.loadingComponent
        /\ inst[i].loaded
        /\ inst[i].loadedDelayed
        /\ ~inst[i].delayed
        /\ ~inst[i].everLoading
        /\ inst[i].view = "comp"

\* C14: an instance makes at most one timeout error, and only when its
\* timer fires while the load has neither resolved nor errored; the error
\* is then set and the error component (if configured) rendered.
C14_TimeoutErrorOnce ==
    [][\A i \in Instances :
         /\ inst'[i].timeoutErrors <= 1
         /\ inst'[i].timeoutErrors # inst[i].timeoutErrors =>
              /\ ~inst[i].loaded
              /\ inst[i].error = "none"
              /\ inst[i].timeoutTimer /\ ~inst'[i].timeoutTimer
              /\ inst'[i].error = "timeout"
              /\ options.errorComponent => inst'[i].view = "error"
      ]_vars

\* An instance timed out, a retry has started a second attempt that has not
\* settled, and there is still one timeout error.
C14_Witness ==
    \E i \in Mounted :
        /\ inst[i].timeoutErrors = 1
        /\ inst[i].error = "timeout"
        /\ ~inst[i].timeoutTimer
        /\ retries = 1
        /\ Len(attempts) = 2
        /\ attempts[2].status = "pending"
        /\ inst[i].view = (IF options.errorComponent THEN "error" ELSE inst[i].view)

\* The loader() invocations that have failed.
FailedAttempts(att) ==
    {a \in DOMAIN att : att[a].status \in {"handler", "follows", "failed", "rejected"}}

\* A step in which the user handler is invoked for the failure of attempt a.
HandlerInvoked(a) ==
    /\ a \in DOMAIN attempts
    /\ attempts[a].status = "pending"
    /\ attempts'[a].status = "handler"

\* C15 as stated: the handler gets the number of failed attempts so far.
C15_HandlerCountsFailures ==
    [][\A a \in 1..MaxAttempts :
         HandlerInvoked(a) =>
             attempts'[a].handlerArg = Cardinality(FailedAttempts(attempts'))
      ]_vars

\* C15 amended: the handler is invoked once for a failure, with one plus
\* the number of retry calls made so far; a retry call clears
\* pendingRequest and starts exactly one loader invocation, whose promise
\* becomes pendingRequest.
C15_HandlerCountsRetries ==
    [][/\ \A a \in 1..MaxAttempts :
            /\ HandlerInvoked(a) =>
                   /\ options.onError
                   /\ attempts'[a].handlerArg = retries + 1
            /\ (a \in DOMAIN attempts /\ attempts[a].status # "pending") =>
                   attempts'[a].handlerArg = attempts[a].handlerArg
       /\ retries' # retries =>
            /\ retries' = retries + 1
            /\ Len(attempts') = Len(attempts) + 1
            /\ attempts'[Len(attempts')].status = "pending"
            /\ pendingRequest' = Len(attempts')
      ]_vars

\* The second failure in a row, after one retry: the handler got 2.
C15_Witness ==
    /\ Len(attempts) = 2
    /\ attempts[1].status = "follows"
    /\ attempts[2].status = "handler"
    /\ attempts[2].handlerArg = 2
    /\ retries = 1

\* C18: when the load of an instance resolves after its timeout error was
\* set, resolvedComp is recorded, the instance becomes loaded and renders
\* the real component; and a loaded instance stays loaded and renders the
\* real component at every later render.
C18_LateSuccessOverwritesTimeout ==
    [][\A i \in Instances :
         /\ (/\ inst[i].state = "waiting"
             /\ inst[i].error = "timeout"
             /\ attempts[Follow(inst[i].promise)].status = "pending"
             /\ attempts'[Follow(inst[i].promise)].status = "resolved") =>
                /\ resolvedComp'
                /\ inst'[i].loaded
                /\ inst'[i].view = "comp"
         /\ (inst[i].state = "waiting" /\ inst[i].loaded) =>
                /\ inst'[i].loaded
                /\ inst'[i].view = "comp"
      ]_vars

\* An instance showed the error component for its timeout and now renders
\* the real component.
C18_Witness ==
    \E i \in Mounted :
        /\ options.errorComponent
        /\ inst[i].error = "timeout"
        /\ inst[i].everError
        /\ inst[i].loaded
        /\ resolvedComp
        /\ inst[i].view = "comp"

\* C19: the failure of the load of an instance is reported and sets its
\* error if and only if the promise it waits on was rejected, which happens
\* only without a user handler or by the handler's fail callback; after a
\* retry whose attempt succeeded the instance is loaded, renders the real
\* component and has no load error (no error at all unless it timed out).
C19_ErrorIffNoHandlerOrFail ==
    /\ \A a \in DOMAIN attempts :
           /\ attempts[a].status = "rejected" => ~options.onError
           /\ attempts[a].status = "failed" => options.onError
    /\ \A i \in Mounted :
           /\ inst[i].error = "load" <=>
                  attempts[Follow(inst[i].promise)].status \in {"rejected", "failed"}
           /\ (/\ attempts[inst[i].promise].status = "follows"
               /\ attempts[Follow(inst[i].promise)].status = "resolved") =>
                  /\ inst[i].loaded
                  /\ inst[i].view = "comp"
                  /\ inst[i].error # "load"
                  /\ inst[i].timeoutErrors = 0 => inst[i].error = "none"

\* The first attempt failed, the handler retried, the second attempt
\* succeeded: the instance is loaded with no error.
C19_Witness ==
    /\ Len(attempts) = 2
    /\ attempts[1].status = "follows"
    /\ attempts[2].status = "resolved"
    /\ 1 \in Mounted
    /\ inst[1].loaded
    /\ inst[1].error = "none"
    /\ inst[1].view = "comp"

\* C24: resolvedComp, once set, stays set; an instance that is loaded gets no
\* error from its timeout timer afterwards; and a setup that finds
\* resolvedComp set renders the resolved component, invokes no loader and
\* starts neither the delay nor the timeout timer.
C24_ResolvedIsTerminal ==
    [][/\ resolvedComp => resolvedComp'
       /\ \A i \in Instances :
            /\ inst[i].loaded =>
                 /\ inst'[i].loaded
                 /\ inst'[i].timeoutErrors = inst[i].timeoutErrors
                 /\ inst'[i].error = "timeout" => inst[i].error = "timeout"
            /\ (resolvedComp /\ inst[i].state = "unmounted"
                             /\ inst'[i].state # "unmounted") =>
                 /\ inst'[i].state = "resolved"
                 /\ inst'[i].view = "comp"
                 /\ ~inst'[i].delayed
                 /\ ~inst'[i].timeoutTimer
                 /\ attempts' = attempts
                 /\ pendingRequest' = pendingRequest
      ]_vars

\* With a delay and a timeout configured, the first instance was loaded
\* before its timeout timer fired, the timer has fired since and left no
\* error, and the second instance was set up after the resolution with one
\* loader invocation in all.
C24_Witness ==
    /\ options.delay /\ options.timeout
    /\ resolvedComp
    /\ inst[1].loaded /\ ~inst[1].timeoutTimer /\ inst[1].error = "none"
    /\ inst[1].timeoutErrors = 0
    /\ inst[2].state = "resolved" /\ inst[2].view = "comp"
    /\ ~inst[2].delayed /\ ~inst[2].timeoutTimer
    /\ Len(attempts) = 1

----------------------------------------------------------------------------
(***************************************************************************)
(* CLAIMS ABOUT EFFECT SCOPES (checked under SpecEffect)                   *)
(***************************************************************************)

\* C16: the effect created inside the scope has run once when it is
\* registered; while the scope is not stopped it runs once more for each
\* write that changes person.age, the property it reads, and for no other
\* write; once the scope is stopped no write runs it again.
C16_NoRunAfterScopeStop ==
    [][LET old == effects["scoped"]
           new == effects'["scoped"]
       IN  /\ (old.state = "none" /\ new.state = "active") => new.runs = 1
           /\ (old.state = "active" /\ scope' = "active") =>
                  new.runs = IF person'["age"] # person["age"]
                             THEN old.runs + 1 ELSE old.runs
           /\ scope = "stopped" => new.runs = old.runs
      ]_vars

\* The script: one run at registration, one for the increment before
\* scope.stop(), none for the three increments of age after it.
C16_Witness ==
    /\ scope = "stopped"
    /\ writes.afterStop = 3
    /\ person["age"] = 24
    /\ effects["scoped"].state = "stopped"
    /\ effects["scoped"].runs = 2

----------------------------------------------------------------------------
(***************************************************************************)
(* CLAIMS ABOUT ACTIVATION AND ITS HOOKS (checked under SpecHooks)         *)
(***************************************************************************)

\* A post-flush callback runs.
PostFlushStep == Len(postQueue') < Len(postQueue)

\* C22: isDeactivated changes only in a post-flush callback; the callback of
\* activate clears the flag before the activation hooks are invoked, the
\* callback of deactivate invokes the deactivation hooks and then sets it;
\* the hooks of an instance are invoked while its flag is false; and when
\* the queue has drained, the flag of an instance is true exactly when the
\* last call for it was deactivate.
C22_FlagFollowsLastCall ==
    [][/\ isDeactivated' # isDeactivated => PostFlushStep
       /\ PostFlushStep =>
            LET c == lastRun'.inst
            IN  /\ ~lastRun'.flags[c]
                /\ isDeactivated'[c] = (lastRun'.type = "da")
                /\ lastRun'.type = "da" => lastRun'.flags = isDeactivated
                /\ \A i \in Components \ {c} : isDeactivated'[i] = isDeactivated[i]
       /\ postQueue' = <<>> =>
            \A c \in KeptAlive : isDeactivated'[c] = (lastCall'[c] = "deactivate")
      ]_vars

\* The queue has drained after V was deactivated and activated again and X
\* was deactivated, the last callback, the one of X, having called a hook
\* while the flag of X was still false.
C22_Witness ==
    /\ postQueue = <<>>
    /\ lastCall["X"] = "deactivate" /\ isDeactivated["X"]
    /\ lastCall["V"] = "activate" /\ ~isDeactivated["V"] /\ place["V"] = "active"
    /\ lastRun.inst = "X" /\ lastRun.type = "da"
    /\ ~lastRun.flags["X"]
    /\ lastRun.called # {}

\* C23: when the hooks of an instance are invoked, the user callback of an
\* injected hook is called if and only if no instance on the path from the
\* target of its registration up to the root is deactivated at that time,
\* whether or not the hook function is registered for other targets too.
C23_HookFiresIffOwnPathActive ==
    [][PostFlushStep =>
         \A e \in lastRun'.entries :
             (e \in lastRun'.called) <=> (\A i \in PathUp(e.target) : ~lastRun'.flags[i])
      ]_vars

----------------------------------------------------------------------------
(***************************************************************************)
(* CLAIMS ABOUT THE PROXY LAYER (checked under SpecReactive)               *)
(***************************************************************************)

AllMaps == <<reactiveMap, shallowReactiveMap, readonlyMap, shallowReadonlyMap>>

\* A raw object that createReactiveObject builds proxies for.
Eligible(v) ==
    /\ ~IsProxyValue(v)
    /\ isObject(v)
    /\ toRawType(v.raw) \in AllowedTypes
    /\ IsExtensible(v)
    /\ ~FlagSkip(v)

\* C5: a wrap of an extensible, non-skip raw target of an allowed type
\* returns a proxy of the requested kind over that target, and every wrap of
\* a target with a kind for which a proxy was built before returns that very
\* proxy (same object), whatever calls happened in between.
C5_WrapTwiceIdentical ==
    [][call'.op = "wrap" =>
         /\ Eligible(call'.arg) =>
              /\ IsProxyValue(ret')
              /\ DirectTarget(ret') = call'.arg
              /\ KindOf(ret') = call'.kind
         /\ <<call'.arg, call'.kind>> \in DOMAIN firstWrap =>
              ret' = firstWrap[<<call'.arg, call'.kind>>]
      ]_vars

\* A second wrap of o1 with the same kind has returned the proxy of the first.
C5_Witness ==
    /\ call.op = "wrap"
    /\ call.arg = RawValue("o1")
    /\ Eligible(call.arg)
    /\ made = Undefined
    /\ <<call.arg, call.kind>> \in DOMAIN firstWrap
    /\ ret = firstWrap[<<call.arg, call.kind>>]
    /\ Cardinality(proxies) > 1

\* C6: toRaw of the result of any wrap call is the raw value at the bottom
\* of the argument, never a proxy; for a raw argument it is the argument.
C6_ToRawRoundTrip ==
    call.op = "wrap" =>
        /\ toRaw(ret) = RawValue(call.arg.raw)
        /\ ~IsProxyValue(toRaw(ret))
        /\ ~IsProxyValue(call.arg) => toRaw(ret) = call.arg

\* readonly() of a reactive proxy has been built, and toRaw of it is o1.
C6_Witness ==
    /\ call.op = "wrap"
    /\ Len(ret.path) = 2
    /\ ret = made
    /\ toRaw(ret) = RawValue("o1")

\* The one legal re-wrap: readonly or shallowReadonly of a mutable proxy.
LegalRewrap(arg, k) == IsReadonlyKind(k) /\ ~IsReadonlyKind(KindOf(arg))

\* C7: a wrap whose argument is already a proxy returns that proxy and
\* builds none, except for the legal re-wrap; reactive() of a readonly proxy
\* returns it and it is still readonly.
C7_NoDoubleWrap ==
    (call.op = "wrap" /\ IsProxyValue(call.arg) /\ ~LegalRewrap(call.arg, call.kind)) =>
        /\ ret = call.arg
        /\ made = Undefined
        /\ (call.kind = "reactive" /\ isReadonly(call.arg)) => isReadonly(ret)

\* reactive(readonly(o1)) has returned the readonly proxy.
C7_Witness ==
    /\ call.op = "wrap"
    /\ call.kind = "reactive"
    /\ IsProxyValue(call.arg)
    /\ KindOf(call.arg) = "readonly"
    /\ ret = call.arg
    /\ isReadonly(ret)

\* C8 as stated: once markRaw(t) was called, every wrap of t returns t; and
\* markRaw returns its argument.
C8_SkipAlwaysReturnsTarget ==
    /\ (call.op = "wrap" /\ call.arg \in RawObjects /\ FlagSkip(call.arg)) =>
           ret = call.arg
    /\ call.op = "markRaw" => ret = call.arg

\* C8 amended: once markRaw(t) was called, no wrap of t builds a proxy; it
\* returns t itself, unless a proxy of the requested kind was built for t
\* before, which is then returned; and markRaw returns its argument.
C8_SkipBuildsNoProxy ==
    /\ (call.op = "wrap" /\ call.arg \in RawObjects /\ FlagSkip(call.arg)) =>
           /\ made = Undefined
           /\ ret = IF <<call.arg, call.kind>> \in DOMAIN firstWrap
                    THEN firstWrap[<<call.arg, call.kind>>]
                    ELSE call.arg
    /\ call.op = "markRaw" => (ret = call.arg /\ FlagSkip(call.arg))

\* o1 was wrapped, then marked, then wrapped with another kind: it came
\* back itself.
C8_Witness ==
    /\ call.op = "wrap"
    /\ call.arg = RawValue("o1")
    /\ FlagSkip(call.arg)
    /\ IsExtensible(call.arg)
    /\ proxies # {}
    /\ ret = call.arg

\* The arguments C9 is about: a primitive, an object of another class, an
\* object that is not extensible.
NeverWrapped(v) ==
    /\ ~IsProxyValue(v)
    /\ \/ ~isObject(v)
       \/ toRawType(v.raw) \notin AllowedTypes
       \/ ~IsExtensible(v)

\* C9 as stated: such a wrap returns its argument, builds no proxy, adds no
\* map entry, and warns for a primitive.
C9_InvalidReturnsArgument ==
    [][(call'.op = "wrap" /\ NeverWrapped(call'.arg)) =>
         /\ ret' = call'.arg
         /\ made' = Undefined
         /\ AllMaps' = AllMaps
         /\ ~isObject(call'.arg) => warned'
      ]_vars

\* C9 amended: such a wrap builds no proxy and adds no map entry; it returns
\* its argument, unless the argument is an object that had a proxy of the
\* requested kind registered before it became non-extensible, which is then
\* returned; it warns for a primitive.
C9_InvalidBuildsNoProxy ==
    [][(call'.op = "wrap" /\ NeverWrapped(call'.arg)) =>
         /\ ret' = IF <<call'.arg, call'.kind>> \in DOMAIN firstWrap
                   THEN firstWrap[<<call'.arg, call'.kind>>]
                   ELSE call'.arg
         /\ made' = Undefined
         /\ proxies' = proxies
         /\ AllMaps' = AllMaps
         /\ ~isObject(call'.arg) => warned'
      ]_vars

\* A non-extensible o1 that already has a proxy was wrapped with a kind it
\* had no proxy of, and came back itself.
C9_Witness ==
    /\ call.op = "wrap"
    /\ call.arg = RawValue("o1")
    /\ ~IsExtensible(call.arg)
    /\ ~FlagSkip(call.arg)
    /\ proxies # {}
    /\ ret = call.arg

\* C10 as stated: per kind at most one proxy with a given toRaw, and every
\* map key is a raw value.
C10_OnePerKindByToRaw ==
    /\ \A p \in proxies, q \in proxies :
           (KindOf(p) = KindOf(q) /\ toRaw(p) = toRaw(q)) => p = q
    /\ \A k \in Kinds : \A t \in DOMAIN ProxyMapOf(k) : ~IsProxyValue(t)

\* C10 amended: per kind at most one proxy with a given direct target, which
\* is the one registered under that target in the kind's map; the keys of
\* the two mutable maps are raw values, the keys of the two readonly maps
\* are raw values or mutable proxies.
C10_OnePerKindByTarget ==
    /\ \A p \in proxies, q \in proxies :
           (KindOf(p) = KindOf(q) /\ DirectTarget(p) = DirectTarget(q)) => p = q
    /\ \A p \in proxies : MapGet(ProxyMapOf(KindOf(p)), DirectTarget(p)) = p
    /\ \A k \in Kinds : \A t \in DOMAIN ProxyMapOf(k) :
           IsProxyValue(t) => (IsReadonlyKind(k) /\ ~IsReadonlyKind(KindOf(t)))

\* o1 has a readonly proxy and a readonly proxy of its reactive proxy.
C10_Witness ==
    \E p \in proxies, q \in proxies :
        /\ p # q
        /\ KindOf(p) = "readonly" /\ KindOf(q) = "readonly"
        /\ toRaw(p) = toRaw(q)
        /\ DirectTarget(q) \in DOMAIN readonlyMap
        /\ IsProxyValue(DirectTarget(q))

\* Every value stored in a kind's map is a proxy of that kind whose direct
\* target is its key.
StoredUnderOwnTarget ==
    \A k \in Kinds : \A t \in DOMAIN ProxyMapOf(k) :
        /\ IsProxyValue(ProxyMapOf(k)[t])
        /\ KindOf(ProxyMapOf(k)[t]) = k
        /\ DirectTarget(ProxyMapOf(k)[t]) = t

\* C25: the queries leave the four maps as they are; a step that changes a
\* map is a wrap call of some kind K, it removes or overwrites no entry of
\* any map and adds one entry, to K's map only; and every value stored in a
\* map is a proxy of the map's kind over its key (the maps start empty).
C25_MapsAppendOnlyKindLocal ==
    [][/\ call'.op \in QueryNames => AllMaps' = AllMaps
       /\ AllMaps' # AllMaps =>
            /\ call'.op = "wrap"
            /\ \A k \in Kinds : \A t \in DOMAIN ProxyMapOf(k) :
                 /\ t \in DOMAIN ProxyMapOf(k)'
                 /\ ProxyMapOf(k)'[t] = ProxyMapOf(k)[t]
            /\ \A k \in Kinds :
                 IF k = call'.kind
                 THEN Cardinality(DOMAIN ProxyMapOf(k)') =
                          Cardinality(DOMAIN ProxyMapOf(k)) + 1
                 ELSE ProxyMapOf(k)' = ProxyMapOf(k)
            /\ StoredUnderOwnTarget'
      ]_vars

\* After reactive(o1), readonly(o1) and readonly(reactive(o1)), two maps
\* hold three entries between them, and toRaw of the outermost proxy has
\* just been asked for.
C25_Witness ==
    /\ call.op = "toRaw"
    /\ Len(call.arg.path) = 2
    /\ ret = RawValue("o1")
    /\ Cardinality(DOMAIN reactiveMap) = 1
    /\ Cardinality(DOMAIN readonlyMap) = 2
    /\ StoredUnderOwnTarget

====
